---------------------------- MODULE Spec2Model ----------------------------
(***************************************************************************)
(* A model of starrpeaker/core.py: call_peak (the pipeline driver), theta  *)
(* (the dispersion estimator) and center_peak (the centering phase).       *)
(*                                                                         *)
(* Three specifications share the module:                                  *)
(*   Spec        one invocation of call_peak, statement group by statement *)
(*               group, on a bin file, a count matrix and a covariate      *)
(*               matrix drawn from bounded sets;                           *)
(*   SpecTheta   one invocation of theta, one Newton iteration per step;   *)
(*   SpecCenter  one invocation of center_peak on a peak file and a        *)
(*               coverage file drawn from bounded sets.                    *)
(*                                                                         *)
(* Library calls (statsmodels' GLM fit, scipy's nbinom.cdf, digamma and    *)
(* polygamma) have no integer model: their results are chosen from small   *)
(* sets, and their failures are a step of their own.  Probabilities are    *)
(* integers in units of 1/PDen.                                            *)
(***************************************************************************)
EXTENDS Integers, Sequences, FiniteSets

(***************************************************************************)
(* Bounds of the model.                                                    *)
(***************************************************************************)
MaxBins == 3
BinLength == 2

(***************************************************************************)
(* Input domains.                                                          *)
(***************************************************************************)
Chroms == {"chr1", "chr2"}
\* bin starts: steps of 1, so that bins of length 2 or more slide
BinStarts == {0, 1, 2}
\* treatment counts (column 1 of the count file) and normalized-control
\* counts (column 2); 12 and 50 are the values of the one-row scenario
Outputs == {0, 50}
Exposures == {0, 5, 12}
\* probabilities are numerators over PDen
PDen == 60 * 1000
\* 0.001, 0.03 and 1
PLevels == {PDen \div 1000, (3 * PDen) \div 100, PDen}
\* the caller's threshold: 0.05
Thresholds == {PDen \div 20}
\* minInputQuantile: the default
Quantiles == {0}

Bins == [chr : Chroms, start : BinStarts, end : {st + BinLength : st \in BinStarts}]
Rows == [y : Outputs, exposure : Exposures]

\* a bin file: "coordinate-sorted within chromosome", chr1 before chr2
SortedBed(b) ==
    /\ \A k \in DOMAIN b : b[k].end = b[k].start + BinLength
    /\ \A k \in DOMAIN b : \A l \in DOMAIN b :
          k < l => \/ (b[k].chr = "chr1" /\ b[l].chr = "chr2")
                   \/ (b[k].chr = b[l].chr /\ b[k].start < b[l].start)

VARIABLES
    \* ---- call_peak: arguments
    bed,              \* bedFile: the bin records, in file order
    bct,              \* bctFile: rows (treatment, normalized control)
    covRows,          \* number of rows of covFile
    threshold,
    minInputQuantile,
    \* ---- call_peak: control
    pc,               \* the statement group about to run
    err,              \* the exception that ended the call, "" if none
    \* ---- call_peak: locals
    locals,           \* names currently bound
    mat,
    minInput,
    nonZeroInput,
    nonSliding,
    i,                \* loop index of the non-sliding scan
    lastchr,
    lastbin,
    nb_tail,          \* the fitted model's map from a row to its upper-tail p-value
    pval,
    pval_adj,
    p_score,
    q_score,
    calls,            \* the rows each fit, dispersion estimate and prediction was given
    \* ---- call_peak: the file system
    files,            \* contents of each output file
    created,          \* the output files, in the order they were opened for writing
    \* ---- theta
    tpc,              \* the statement group of theta about to run
    t0,               \* the estimate, in units of eps
    t0_int,           \* t0 is the Python int 0 assigned at line 375
    it,
    de,               \* the last Newton update, in units of eps
    warnings,         \* the warnings printed, in order
    \* ---- center_peak
    cpc,              \* the statement group of center_peak about to run
    cerr,             \* the exception that ended center_peak, "" if none
    peak,             \* peakFile: the merged peaks, in file order
    coverageFile,     \* coverageFile: (chr, start, end, depth) records
    peak_coverage,    \* the intersection of line 596
    coverage,         \* the dict of lines 597-603
    n_done,           \* peaks the loop of line 605 has finished
    cmat,             \* mat of line 616 for the last peak handled
    depth,            \* depth of line 619 for the last peak handled
    centered,         \* rows written to centeredPeakFile
    warned            \* peaks the warning of line 614 was printed for

callVars == <<bed, bct, covRows, threshold, minInputQuantile, pc, err, locals, mat,
              minInput, nonZeroInput, nonSliding, i, lastchr, lastbin, nb_tail, pval,
              pval_adj, p_score, q_score, calls, files, created>>

thetaVars == <<tpc, t0, t0_int, it, de, warnings>>

centerVars == <<cpc, cerr, peak, coverageFile, peak_coverage, coverage, n_done, cmat,
                depth, centered, warned>>

vars == <<callVars, thetaVars, centerVars>>

(***************************************************************************)
(* Helpers.                                                                *)
(***************************************************************************)
Min(S) == CHOOSE x \in S : \A z \in S : x <= z
Max(S) == CHOOSE x \in S : \A z \in S : x >= z

\* itertools.compress(data, selectors) / numpy boolean-mask indexing: the
\* elements of data whose selector is true, in order
RECURSIVE compress(_, _)
compress(data, selectors) ==
    IF data = <<>> \/ selectors = <<>> THEN <<>>
    ELSE (IF Head(selectors) THEN <<Head(data)>> ELSE <<>>)
         \o compress(Tail(data), Tail(selectors))

\* nonZeroInput & nonSliding
MaskAnd(a, b) == [k \in DOMAIN a |-> a[k] /\ b[k]]

FileNames == {"peak.bed", "pval.bedGraph", "peak.merged.bed", "peak.final.bed"}

\* the output files a statement group opens for writing (lines 469 and 479)
Opens_BeforeFit(stage) ==
    CASE stage = "load" -> <<"peak.bed">>
      [] stage = "output_pval" -> <<"pval.bedGraph">>
      [] OTHER -> <<>>

Opens(stage) ==
    CASE stage = "output_peak" -> <<"peak.bed">>
      [] stage = "output_pval" -> <<"pval.bedGraph">>
      [] OTHER -> <<>>

\* an exception leaves call_peak: nothing after the raising statement runs
Raise(e) == pc' = "aborted" /\ err' = e

(***************************************************************************)
(* lines 389-396: load the two matrices and concatenate them column-wise.  *)
(* np.concatenate raises ValueError when the row counts differ.            *)
(***************************************************************************)
LoadData ==
    /\ pc = "load"
    /\ IF covRows # Len(bct)
       THEN /\ Raise("ValueError")
            /\ UNCHANGED <<locals, mat>>
       ELSE /\ mat' = bct
            /\ locals' = locals \cup {"mat"}
            /\ pc' = "filter"
            /\ err' = err
    /\ created' = created \o Opens(pc)
    /\ UNCHANGED <<bed, bct, covRows, threshold, calls, minInputQuantile, nb_tail, minInput,
                   nonZeroInput, nonSliding, i, lastchr, lastbin, pval, pval_adj,
                   p_score, q_score, files>>
    /\ UNCHANGED <<thetaVars, centerVars>>

(***************************************************************************)
(* lines 398-401: the coverage filter.                                     *)
(***************************************************************************)
\* mat[(mat[:, 1] > 0), 1]
PositiveInputs(m) == {m[k].exposure : k \in {l \in DOMAIN m : m[l].exposure > 0}}

\* np.quantile(a, q) at the two quantiles that need no interpolation
Quantile(S, q) == IF q = 0 THEN Min(S) ELSE Max(S)

\* mat[:, 1] > minInput
CoverageMask(m, lo) == [k \in DOMAIN m |-> m[k].exposure > lo]

FilterInput ==
    /\ pc = "filter"
    /\ IF PositiveInputs(mat) = {}
       THEN \* np.quantile of an empty array: IndexError, or nan (and a mask that is
            \* all False) depending on the numpy release
            \/ /\ Raise("IndexError")
               /\ UNCHANGED <<locals, minInput, nonZeroInput, nonSliding>>
            \/ /\ nonZeroInput' = [k \in DOMAIN mat |-> FALSE]
               /\ nonSliding' = [k \in DOMAIN mat |-> FALSE]
               /\ locals' = locals \cup {"minInput", "nonZeroInput", "nonSliding"}
               /\ pc' = "scan"
               /\ UNCHANGED <<err, minInput>>
       ELSE /\ minInput' = Quantile(PositiveInputs(mat), minInputQuantile)
            /\ nonZeroInput' = CoverageMask(mat, minInput')
            \* line 404: np.zeros(mat.shape[0], dtype=bool)
            /\ nonSliding' = [k \in DOMAIN mat |-> FALSE]
            /\ locals' = locals \cup {"minInput", "nonZeroInput", "nonSliding"}
            /\ pc' = "scan"
            /\ err' = err
    /\ i' = 0
    /\ lastchr' = ""
    /\ lastbin' = 0
    /\ created' = created \o Opens(pc)
    /\ UNCHANGED <<bed, bct, covRows, threshold, calls, minInputQuantile, nb_tail, mat, pval,
                   pval_adj, p_score, q_score, files>>
    /\ UNCHANGED <<thetaVars, centerVars>>

(***************************************************************************)
(* lines 405-414: the non-sliding scan, one bin record per step.  i counts *)
(* the records already read.                                               *)
(***************************************************************************)
\* a test that also rejects a bin that starts exactly at the last marked end
IsNonSliding_Strict(bin, lchr, lbin) == bin.chr # lchr \/ bin.start > lbin

\* the test of lines 408 and 412 on one bin record
IsNonSliding(bin, lchr, lbin) == bin.chr # lchr \/ bin.start >= lbin

ScanBin ==
    /\ pc = "scan"
    /\ i < Len(bed)
    /\ LET bin == bed[i + 1] IN
          IF IsNonSliding(bin, lastchr, lastbin)
          THEN /\ lastchr' = bin.chr
               /\ lastbin' = bin.end
               /\ nonSliding' = [nonSliding EXCEPT ![i + 1] = TRUE]
          ELSE UNCHANGED <<lastchr, lastbin, nonSliding>>
    /\ i' = i + 1
    /\ UNCHANGED <<bed, bct, covRows, threshold, calls, minInputQuantile, nb_tail, pc, err, locals,
                   mat, minInput, nonZeroInput, pval, pval_adj, p_score, q_score,
                   files, created>>
    /\ UNCHANGED <<thetaVars, centerVars>>

ScanDone ==
    /\ pc = "scan"
    /\ i = Len(bed)
    /\ pc' = "fit0"
    /\ UNCHANGED <<bed, bct, covRows, threshold, calls, minInputQuantile, nb_tail, err, locals, mat,
                   minInput, nonZeroInput, nonSliding, i, lastchr, lastbin, pval,
                   pval_adj, p_score, q_score, files, created>>
    /\ UNCHANGED <<thetaVars, centerVars>>

(***************************************************************************)
(* lines 425-448: the two regression fits and the two dispersion           *)
(* estimates, on the rows that are sufficiently covered and non-sliding.   *)
(***************************************************************************)
\* the rows of every sufficiently covered bin, sliding or not
TrainingRows_Covered == compress(mat, nonZeroInput)

\* mat[nonZeroInput & nonSliding, :]
TrainingRows == compress(mat, MaskAnd(nonZeroInput, nonSliding))

\* mat[nonZeroInput, :]
TestedRows == compress(mat, nonZeroInput)

\* compress(bed.readlines(), nonZeroInput)
TestedBins == compress(bed, nonZeroInput)

\* smf.glm(...).fit() of lines 433 and 442-443 returned
FitModel ==
    /\ pc \in {"fit0", "fit1"}
    /\ pc' = IF pc = "fit0" THEN "theta0" ELSE "theta1"
    /\ locals' = locals \cup {IF pc = "fit0" THEN "model0" ELSE "model"}
    \* line 427: df holds the rows of mat[nonZeroInput & nonSliding, :]
    /\ calls' = Append(calls, [fn |-> "glm.fit", rows |-> TrainingRows])
    /\ created' = created \o Opens(pc)
    /\ UNCHANGED <<bed, bct, covRows, threshold, minInputQuantile, nb_tail, err, mat, minInput,
                   nonZeroInput, nonSliding, i, lastchr, lastbin, pval, pval_adj,
                   p_score, q_score, files>>
    /\ UNCHANGED <<thetaVars, centerVars>>

\* theta(y, mu) of lines 437 and 447.  On no rows, line 360 divides the int
\* 0 by the int 0.  Otherwise theta returns, or raises at line 381 after the
\* truncation of line 375 (see SpecTheta).
EstimateTheta ==
    /\ pc \in {"theta0", "theta1"}
    /\ \/ /\ TrainingRows # <<>>
          /\ pc' = IF pc = "theta0" THEN "fit1" ELSE "pvalue"
          /\ locals' = locals \cup {IF pc = "theta0" THEN "th0" ELSE "th"}
          /\ err' = err
       \/ /\ Raise("ZeroDivisionError")
          /\ UNCHANGED locals
    /\ calls' = Append(calls, [fn |-> "theta", rows |-> TrainingRows])
    /\ created' = created \o Opens(pc)
    /\ UNCHANGED <<bed, bct, covRows, threshold, minInputQuantile, nb_tail, mat, minInput,
                   nonZeroInput, nonSliding, i, lastchr, lastbin, pval, pval_adj,
                   p_score, q_score, files>>
    /\ UNCHANGED <<thetaVars, centerVars>>

(***************************************************************************)
(* lines 450-458: fitted means and upper-tail p-values of the sufficiently *)
(* covered rows.  For one fitted model the p-value is a function of the    *)
(* row; 1 - cdf(-1) is 1, so a row with y = 0 has p-value 1.              *)
(***************************************************************************)
RowSet(rows) == {rows[k] : k \in DOMAIN rows}

TailFunctions(rows) ==
    {t \in [RowSet(rows) -> PLevels] : \A r \in RowSet(rows) : r.y = 0 => t[r] = PDen}

CalculatePvalue ==
    /\ pc = "pvalue"
    /\ \E tail \in TailFunctions(TestedRows) :
          /\ nb_tail' = tail
          /\ pval' = [k \in DOMAIN TestedRows |-> tail[TestedRows[k]]]
    /\ locals' = (locals \cup {"df", "y_hat", "theta_hat", "prob", "pval"}) \ {"mat"}
    /\ mat' = <<>>
    /\ pc' = "correct"
    \* lines 451-452 and 458
    /\ calls' = calls \o <<[fn |-> "predict", rows |-> TestedRows],
                           [fn |-> "nbinom.cdf", rows |-> TestedRows]>>
    /\ created' = created \o Opens(pc)
    /\ UNCHANGED <<bed, bct, covRows, threshold, minInputQuantile, err, minInput,
                   nonZeroInput, nonSliding, i, lastchr, lastbin, pval_adj, p_score,
                   q_score, files>>
    /\ UNCHANGED <<thetaVars, centerVars>>

(***************************************************************************)
(* lines 461-466: Benjamini-Hochberg correction and the two scores.        *)
(***************************************************************************)
\* position of p[k] in the stable ascending sort of p, from 1
Rank(p, k) ==
    Cardinality({l \in DOMAIN p : p[l] < p[k] \/ (p[l] = p[k] /\ l <= k)})

\* multipletests(pval, method="fdr_bh"): p * m / rank, made monotone from the
\* largest p-value down and clipped at 1
fdr_bh(p) ==
    [k \in DOMAIN p |->
        Min({PDen} \cup {(p[l] * Len(p)) \div Rank(p, l) :
                            l \in {j \in DOMAIN p : Rank(p, j) >= Rank(p, k)}})]

\* -log10(p / PDen), rounded down to a whole number; p > 0
RECURSIVE NegLog10(_)
NegLog10(p) == IF p * 10 > PDen THEN 0 ELSE 1 + NegLog10(p * 10)

Correct ==
    /\ pc = "correct"
    /\ pval_adj' = fdr_bh(pval)
    /\ p_score' = [k \in DOMAIN pval |-> NegLog10(pval[k])]
    /\ q_score' = [k \in DOMAIN pval |-> NegLog10(pval_adj'[k])]
    /\ locals' = locals \cup {"pval_adj", "p_score", "q_score"}
    /\ pc' = "output_peak"
    /\ created' = created \o Opens(pc)
    /\ UNCHANGED <<bed, bct, covRows, threshold, calls, minInputQuantile, nb_tail, err, mat, minInput,
                   nonZeroInput, nonSliding, i, lastchr, lastbin, pval, files>>
    /\ UNCHANGED <<thetaVars, centerVars>>

\* a library call of lines 433, 442, 452-458 or 463 raised
LibraryFailure ==
    /\ pc \in {"fit0", "fit1", "pvalue", "correct"}
    /\ Raise("LibraryError")
    /\ UNCHANGED <<bed, bct, covRows, threshold, calls, minInputQuantile, nb_tail, locals, mat,
                   minInput, nonZeroInput, nonSliding, i, lastchr, lastbin, pval,
                   pval_adj, p_score, q_score, files, created>>
    /\ UNCHANGED <<thetaVars, centerVars>>

(***************************************************************************)
(* lines 468-475: the peak file.                                           *)
(***************************************************************************)
\* the row of line 473-474 for the k-th sufficiently covered bin
PeakRow(bin, k) ==
    [chr |-> bin.chr, start |-> bin.start, end |-> bin.end,
     p_score |-> p_score[k], q_score |-> q_score[k],
     pval |-> pval[k], pval_adj |-> pval_adj[k]]

\* the first records of the bin file, whatever the coverage mask says
PeakBins_Unmasked == SubSeq(bed, 1, Len(TestedBins))

\* the bins the loop of lines 471-474 pairs with pval[k], pval_adj[k], ...
PeakBins == TestedBins

\* the test of line 472
IsCalled(k) == pval_adj[k] <= threshold

RECURSIVE PeakRowsFrom(_, _)
PeakRowsFrom(bins, k) ==
    IF k > Len(bins) THEN <<>>
    ELSE (IF IsCalled(k) THEN <<PeakRow(bins[k], k)>> ELSE <<>>)
         \o PeakRowsFrom(bins, k + 1)

OutputPeak ==
    /\ pc = "output_peak"
    /\ created' = created \o Opens(pc)
    /\ files' = [files EXCEPT !["peak.bed"] = PeakRowsFrom(PeakBins, 1)]
    \* line 475
    /\ locals' = locals \ {"p_score", "q_score"}
    /\ p_score' = <<>>
    /\ q_score' = <<>>
    /\ pc' = "output_pval"
    /\ UNCHANGED <<bed, bct, covRows, threshold, calls, minInputQuantile, nb_tail, err, mat, minInput,
                   nonZeroInput, nonSliding, i, lastchr, lastbin, pval, pval_adj>>
    /\ UNCHANGED <<thetaVars, centerVars>>

(***************************************************************************)
(* lines 477-483: the p-value track.  The file is opened, and the first    *)
(* row reads p_score, which line 475 deleted.                              *)
(***************************************************************************)
OutputPvalTrack ==
    /\ pc = "output_pval"
    /\ created' = created \o Opens(pc)
    /\ IF TestedBins # <<>> /\ "p_score" \notin locals
       THEN /\ Raise("NameError")
            /\ UNCHANGED <<locals, files, pval, pval_adj>>
       ELSE /\ files' = [files EXCEPT !["pval.bedGraph"] =
                            [k \in DOMAIN TestedBins |->
                                [chr |-> TestedBins[k].chr, start |-> TestedBins[k].start,
                                 end |-> TestedBins[k].end, p_score |-> p_score[k]]]]
            \* line 483
            /\ locals' = locals \ {"pval", "pval_adj"}
            /\ pval' = <<>>
            /\ pval_adj' = <<>>
            /\ pc' = "merge"
            /\ err' = err
    /\ UNCHANGED <<bed, bct, covRows, threshold, calls, minInputQuantile, nb_tail, mat, minInput,
                   nonZeroInput, nonSliding, i, lastchr, lastbin, p_score, q_score>>
    /\ UNCHANGED <<thetaVars, centerVars>>

(***************************************************************************)
(* line 487: BedTool(peak.bed).merge(c=[4,5,6,7], o=[max,max,min,min]) on  *)
(* a coordinate-sorted file: a record that starts at or before the end of  *)
(* the run on its chromosome joins the run.                                *)
(***************************************************************************)
RECURSIVE MergeRun(_, _)
MergeRun(rest, cur) ==
    IF rest = <<>> THEN <<cur>>
    ELSE LET r == Head(rest) IN
         IF r.chr = cur.chr /\ r.start <= cur.end
         THEN MergeRun(Tail(rest),
                       [cur EXCEPT !.end = Max({cur.end, r.end}),
                                   !.p_score = Max({cur.p_score, r.p_score}),
                                   !.q_score = Max({cur.q_score, r.q_score}),
                                   !.pval = Min({cur.pval, r.pval}),
                                   !.pval_adj = Min({cur.pval_adj, r.pval_adj})])
         ELSE <<cur>> \o MergeRun(Tail(rest), r)

merge(rows) == IF rows = <<>> THEN <<>> ELSE MergeRun(Tail(rows), Head(rows))

Next ==
    \/ LoadData
    \/ FilterInput
    \/ ScanBin
    \/ ScanDone
    \/ FitModel
    \/ EstimateTheta
    \/ CalculatePvalue
    \/ Correct
    \/ LibraryFailure
    \/ OutputPeak
    \/ OutputPvalTrack

(***************************************************************************)
(* theta(y, mu), lines 348-383.  The estimate and the Newton update are    *)
(* integers in units of eps.  score(th)/info(th) is a quotient of sums of  *)
(* digamma and trigamma values of the data: each iteration draws it from   *)
(* NewtonUpdates.  Floating-point results that are exactly zero, infinite  *)
(* or nan are left out.                                                    *)
(***************************************************************************)
MaxDelta == 2
MaxTheta0 == 2

\* line 352, in units of itself
eps == 1
\* line 355
limit == 20

Abs(x) == IF x < 0 THEN -x ELSE x

\* score(t0, ...) / info(t0, ...) of line 369, for t0 = th
NewtonUpdates(th) == {d \in (-MaxDelta)..MaxDelta : th + d # 0}

\* the loop condition of line 366
Continue_NoCap == Abs(de) > eps

\* a loop that goes on when the update equals the tolerance
Continue_AtTolerance == it < limit /\ Abs(de) >= eps

Continue == it < limit /\ Abs(de) > eps

\* the test of line 377
IterationLimitReached_Unconverged == it = limit /\ Abs(de) > eps

IterationLimitReached == it = limit

\* lines 366-371: one iteration
NewtonStep ==
    /\ tpc = "loop"
    /\ Continue
    /\ it' = it + 1
    /\ \E d \in NewtonUpdates(Abs(t0)) :
          /\ de' = d
          /\ t0' = Abs(t0) + d
    /\ UNCHANGED <<tpc, t0_int, warnings>>
    /\ UNCHANGED <<callVars, centerVars>>

\* lines 373-378: the loop has ended; the two warnings
Warn ==
    /\ tpc = "loop"
    /\ ~Continue
    /\ t0' = IF t0 < 0 THEN 0 ELSE t0
    /\ t0_int' = (t0 < 0)
    /\ warnings' = warnings
                   \o (IF t0 < 0 THEN <<"estimate truncated at zero">> ELSE <<>>)
                   \o (IF IterationLimitReached THEN <<"iteration limit reached">> ELSE <<>>)
    /\ tpc' = "se"
    /\ UNCHANGED <<it, de>>
    /\ UNCHANGED <<callVars, centerVars>>

\* lines 380-383: info(t0, ...) evaluates 1 / th (line 345); with th the int 0
\* of line 375 that is ZeroDivisionError
StandardError ==
    /\ tpc = "se"
    /\ tpc' = IF t0_int THEN "raised" ELSE "returned"
    /\ UNCHANGED <<t0, t0_int, it, de, warnings>>
    /\ UNCHANGED <<callVars, centerVars>>

NextTheta == NewtonStep \/ Warn \/ StandardError

(***************************************************************************)
(* center_peak(peakFile, coverageFile, centeredPeakFile, windowSize),      *)
(* lines 594-624, on one chromosome.                                       *)
(***************************************************************************)
MaxCoord == 4
MaxPeaks == 2
MaxCov == 2
MaxDepth == 2
\* the windowSize argument
WindowSize == 2

Intervals == {iv \in [chr : {"chr1"}, start : 0..MaxCoord, end : 0..MaxCoord] :
                 iv.start < iv.end}

CoverageRecords ==
    {r \in [chr : {"chr1"}, start : 0..MaxCoord, end : 0..MaxCoord, depth : 1..MaxDepth] :
        r.start < r.end}

\* a merged-peak file: sorted, and no two peaks touch
MergedPeaks(s) == \A k \in DOMAIN s : k > 1 => s[k - 1].end < s[k].start

\* a bedGraph: sorted, and no two records overlap
BedGraph(s) == \A k \in DOMAIN s : k > 1 => s[k - 1].end <= s[k].start

\* bedtools intersect: a and b share at least one base
Overlaps(a, b) == a.chr = b.chr /\ a.start < b.end /\ b.start < a.end

\* peak.intersect(coverage, wa=True, wb=True): for each peak in file order,
\* one record per overlapping coverage record, holding both originals
RECURSIVE IntersectFrom(_, _, _, _)
IntersectFrom(a, b, k, l) ==
    IF k > Len(a) THEN <<>>
    ELSE IF l > Len(b) THEN IntersectFrom(a, b, k + 1, 1)
    ELSE (IF Overlaps(a[k], b[l]) THEN <<[a |-> a[k], b |-> b[l]]>> ELSE <<>>)
         \o IntersectFrom(a, b, k, l + 1)

\* lines 595-596
Intersect ==
    /\ cpc = "intersect"
    /\ peak_coverage' = IntersectFrom(peak, coverageFile, 1, 1)
    /\ cpc' = "dict"
    /\ UNCHANGED <<cerr, peak, coverageFile, coverage, n_done, cmat, depth, centered,
                   warned>>
    /\ UNCHANGED <<callVars, thetaVars>>

\* pc[0] + "_" + pc[1] + "_" + pc[2]
Pid(p) == <<p.chr, p.start, p.end>>

\* [int(pc[8]), int(pc[9]), int(pc[10])] of the records of one peak, in order
RECURSIVE CoverageOf(_, _)
CoverageOf(pcs, pid) ==
    IF pcs = <<>> THEN <<>>
    ELSE (IF Pid(Head(pcs).a) = pid
          THEN <<<<Head(pcs).b.start, Head(pcs).b.end, Head(pcs).b.depth>>>>
          ELSE <<>>)
         \o CoverageOf(Tail(pcs), pid)

\* lines 597-604: the dict has a key for each peak some record intersects
BuildCoverage ==
    /\ cpc = "dict"
    /\ coverage' = [pid \in {Pid(peak_coverage[k].a) : k \in DOMAIN peak_coverage} |->
                       CoverageOf(peak_coverage, pid)]
    /\ cpc' = "loop"
    /\ UNCHANGED <<cerr, peak, coverageFile, peak_coverage, n_done, cmat, depth,
                   centered, warned>>
    /\ UNCHANGED <<callVars, thetaVars>>

\* a slice bound of a sequence of length n, as Python normalises it
PyIndex(x, n) ==
    IF x < 0 THEN (IF x + n < 0 THEN 0 ELSE x + n)
    ELSE (IF x > n THEN n ELSE x)

\* mat[lo:hi] = v, positions counted from 0
SliceAssign(m, n, lo, hi, v) ==
    [q \in 0..(n - 1) |-> IF PyIndex(lo, n) <= q /\ q < PyIndex(hi, n) THEN v ELSE m[q]]

\* lines 616-618
RECURSIVE FillMat(_, _, _, _)
FillMat(m, n, cov, start) ==
    IF cov = <<>> THEN m
    ELSE FillMat(SliceAssign(m, n, Head(cov)[1] - start, Head(cov)[2] - start,
                             Head(cov)[3]),
                 n, Tail(cov), start)

\* sum(mat[a:b + 1])
RECURSIVE SumRange(_, _, _)
SumRange(m, a, b) == IF a > b THEN 0 ELSE m[a] + SumRange(m, a + 1, b)

\* lines 619-621
WindowSums(m, n, w) == [idx \in 0..(n - w) |-> SumRange(m, idx, idx + w - 1)]

\* np.argwhere(depth == np.max(depth))
ArgMax(d) == {idx \in DOMAIN d : \A other \in DOMAIN d : d[idx] >= d[other]}

\* lines 622-624: first maximal window start, last maximal window end
CenteredRow_FirstOnly(p, d, w) ==
    [chr |-> p.chr, start |-> Min(ArgMax(d)) + p.start,
     end |-> Min(ArgMax(d)) + p.start + w]

CenteredRow(p, d, w) ==
    [chr |-> p.chr, start |-> Min(ArgMax(d)) + p.start,
     end |-> Max(ArgMax(d)) + p.start + w]

\* lines 605-624: one peak of the loop
CenterPeak ==
    /\ cpc = "loop"
    /\ n_done < Len(peak)
    /\ LET p == peak[n_done + 1]
           n == p.end - p.start
       IN
       IF Pid(p) \notin DOMAIN coverage
       THEN \* line 611: coverage[pid] raises KeyError
            /\ cpc' = "aborted"
            /\ cerr' = "KeyError"
            /\ UNCHANGED <<n_done, cmat, depth, centered, warned>>
       ELSE IF Len(coverage[Pid(p)]) = 0
       THEN \* lines 613-614
            /\ warned' = warned \cup {p}
            /\ n_done' = n_done + 1
            /\ UNCHANGED <<cpc, cerr, cmat, depth, centered>>
       ELSE IF n - WindowSize + 1 <= 0
       THEN \* line 619 (negative dimension) or line 622 (max of an empty array)
            /\ cmat' = FillMat([q \in 0..(n - 1) |-> 0], n, coverage[Pid(p)], p.start)
            /\ cpc' = "aborted"
            /\ cerr' = "ValueError"
            /\ UNCHANGED <<n_done, depth, centered, warned>>
       ELSE /\ cmat' = FillMat([q \in 0..(n - 1) |-> 0], n, coverage[Pid(p)], p.start)
            /\ depth' = WindowSums(cmat', n, WindowSize)
            /\ centered' = Append(centered, CenteredRow(p, depth', WindowSize))
            /\ n_done' = n_done + 1
            /\ UNCHANGED <<cpc, cerr, warned>>
    /\ UNCHANGED <<peak, coverageFile, peak_coverage, coverage>>
    /\ UNCHANGED <<callVars, thetaVars>>

\* the loop of line 605 is over: the file is closed
CenterDone ==
    /\ cpc = "loop"
    /\ n_done = Len(peak)
    /\ cpc' = "done"
    /\ UNCHANGED <<cerr, peak, coverageFile, peak_coverage, coverage, n_done, cmat,
                   depth, centered, warned>>
    /\ UNCHANGED <<callVars, thetaVars>>

NextCenter == Intersect \/ BuildCoverage \/ CenterPeak \/ CenterDone

(***************************************************************************)
(* The specifications.                                                     *)
(***************************************************************************)
\* call_peak is entered with its arguments; theta and center_peak are not running
Init ==
    /\ \E n \in 1..MaxBins :
          /\ bed \in {b \in [1..n -> Bins] : SortedBed(b)}
          /\ bct \in [1..n -> Rows]
          /\ covRows \in {n, n + 1}
    /\ threshold \in Thresholds
    /\ minInputQuantile \in Quantiles
    /\ pc = "load"
    /\ err = ""
    /\ locals = {}
    /\ mat = <<>>
    /\ minInput = 0
    /\ nonZeroInput = <<>>
    /\ nonSliding = <<>>
    /\ i = 0
    /\ lastchr = ""
    /\ lastbin = 0
    /\ nb_tail = <<>>
    /\ pval = <<>>
    /\ pval_adj = <<>>
    /\ p_score = <<>>
    /\ q_score = <<>>
    /\ calls = <<>>
    /\ files = [f \in FileNames |-> <<>>]
    /\ created = <<>>
    /\ tpc = "idle"
    /\ t0 = 0
    /\ t0_int = FALSE
    /\ it = 0
    /\ de = 0
    /\ warnings = <<>>
    /\ cpc = "idle"
    /\ cerr = ""
    /\ peak = <<>>
    /\ coverageFile = <<>>
    /\ peak_coverage = <<>>
    /\ coverage = <<>>
    /\ n_done = 0
    /\ cmat = <<>>
    /\ depth = <<>>
    /\ centered = <<>>
    /\ warned = {}

Spec == Init /\ [][Next]_vars

\* theta is entered: lines 357-362 have run; t0 = n / sum(...) is positive and
\* de = 1 is above eps
InitTheta ==
    /\ bed = <<>>
    /\ bct = <<>>
    /\ covRows = 0
    /\ threshold = 0
    /\ minInputQuantile = 0
    /\ pc = "idle"
    /\ err = ""
    /\ locals = {}
    /\ mat = <<>>
    /\ minInput = 0
    /\ nonZeroInput = <<>>
    /\ nonSliding = <<>>
    /\ i = 0
    /\ lastchr = ""
    /\ lastbin = 0
    /\ nb_tail = <<>>
    /\ pval = <<>>
    /\ pval_adj = <<>>
    /\ p_score = <<>>
    /\ q_score = <<>>
    /\ calls = <<>>
    /\ files = [f \in FileNames |-> <<>>]
    /\ created = <<>>
    /\ tpc = "loop"
    /\ t0 \in 1..MaxTheta0
    /\ t0_int = FALSE
    /\ it = 0
    /\ de = eps + 1
    /\ warnings = <<>>
    /\ cpc = "idle"
    /\ cerr = ""
    /\ peak = <<>>
    /\ coverageFile = <<>>
    /\ peak_coverage = <<>>
    /\ coverage = <<>>
    /\ n_done = 0
    /\ cmat = <<>>
    /\ depth = <<>>
    /\ centered = <<>>
    /\ warned = {}

SpecTheta == InitTheta /\ [][NextTheta]_vars

\* center_peak is entered with its two files
InitCenter ==
    /\ bed = <<>>
    /\ bct = <<>>
    /\ covRows = 0
    /\ threshold = 0
    /\ minInputQuantile = 0
    /\ pc = "idle"
    /\ err = ""
    /\ locals = {}
    /\ mat = <<>>
    /\ minInput = 0
    /\ nonZeroInput = <<>>
    /\ nonSliding = <<>>
    /\ i = 0
    /\ lastchr = ""
    /\ lastbin = 0
    /\ nb_tail = <<>>
    /\ pval = <<>>
    /\ pval_adj = <<>>
    /\ p_score = <<>>
    /\ q_score = <<>>
    /\ calls = <<>>
    /\ files = [f \in FileNames |-> <<>>]
    /\ created = <<>>
    /\ tpc = "idle"
    /\ t0 = 0
    /\ t0_int = FALSE
    /\ it = 0
    /\ de = 0
    /\ warnings = <<>>
    /\ cpc = "intersect"
    /\ cerr = ""
    /\ \E n \in 1..MaxPeaks : peak \in {s \in [1..n -> Intervals] : MergedPeaks(s)}
    /\ \E n \in 0..MaxCov :
          coverageFile \in {s \in [1..n -> CoverageRecords] : BedGraph(s)}
    /\ peak_coverage = <<>>
    /\ coverage = <<>>
    /\ n_done = 0
    /\ cmat = <<>>
    /\ depth = <<>>
    /\ centered = <<>>
    /\ warned = {}

SpecCenter == InitCenter /\ [][NextCenter]_vars

(***************************************************************************)
(* Properties of call_peak.                                                *)
(***************************************************************************)
Range(f) == {f[k] : k \in DOMAIN f}

Halted == pc \in {"done", "aborted"}

\* both fits, both dispersion estimates, the p-values and the correction
\* have returned
SignificanceDone == {"model0", "th0", "model", "th", "pval", "pval_adj"} \subseteq locals

\* number of sufficiently covered bins among the first j bins: the row of
\* mat[nonZeroInput, :] that holds bin j
Pos(j) == Cardinality({l \in 1..j : nonZeroInput[l]})

RECURSIVE SortedSeq(_)
SortedSeq(S) == IF S = {} THEN <<>> ELSE <<Min(S)>> \o SortedSeq(S \ {Min(S)})

CoveredIdx == SortedSeq({j \in DOMAIN bed : nonZeroInput[j]})

\* the p-value of bin j's own count row under the fitted model
PvalOfBin(j) == nb_tail[bct[j]]

\* the adjusted p-value of bin j: the correction over the covered bins' own p-values
AdjOfBin(j) == fdr_bh([k \in DOMAIN CoveredIdx |-> PvalOfBin(CoveredIdx[k])])[Pos(j)]

CalledIdx == SortedSeq({j \in DOMAIN bed : nonZeroInput[j] /\ AdjOfBin(j) <= threshold})

\* C1 (as claimed): every run in which the fits, the dispersion estimates,
\* the p-values and the correction succeed and at least one bin is
\* sufficiently covered runs to completion, having written the peak file,
\* the p-value track (one row per covered bin), the merged-peak file and
\* the final file, in this order.
C1_RunsToCompletion ==
    (Halted /\ SignificanceDone /\ CoveredIdx # <<>>) =>
        /\ pc = "done"
        /\ created = <<"peak.bed", "pval.bedGraph", "peak.merged.bed", "peak.final.bed">>
        /\ Len(files["pval.bedGraph"]) = Len(CoveredIdx)

\* C2 (as claimed): with minInputQuantile = 0 the coverage filter keeps
\* exactly the bins whose normalized-control count is positive.
C2_KeepsPositiveInputs ==
    ("nonZeroInput" \in locals /\ minInputQuantile = 0) =>
        \A j \in DOMAIN bct : nonZeroInput[j] <=> bct[j].exposure > 0

\* C3: once written, the peak file holds, in bin-file order, exactly one row
\* for each sufficiently covered bin whose adjusted p-value is <= threshold,
\* and the row pairs the bin's record with the scores and p-values of that
\* bin's own count row.
C3_PeakFileRows ==
    "peak.bed" \in Range(created) =>
        files["peak.bed"] =
            [n \in DOMAIN CalledIdx |->
                LET j == CalledIdx[n] IN
                [chr |-> bed[j].chr, start |-> bed[j].start, end |-> bed[j].end,
                 p_score |-> NegLog10(PvalOfBin(j)), q_score |-> NegLog10(AdjOfBin(j)),
                 pval |-> PvalOfBin(j), pval_adj |-> AdjOfBin(j)]]

\* a peak file with a called bin, a covered bin that is not called, and an
\* uncovered first bin (so file rows and matrix rows have different indices)
C3_Witness ==
    /\ "peak.bed" \in Range(created)
    /\ ~nonZeroInput[1]
    /\ Len(files["peak.bed"]) >= 1
    /\ Len(files["peak.bed"]) < Len(CoveredIdx)

\* C8: no output file is opened before both fits, both dispersion estimates,
\* the p-values and the correction have returned; a run ended by a row-count
\* mismatch or by a failing library call leaves no output file.
C8_NoOutputBeforeSignificance ==
    /\ created # <<>> => SignificanceDone
    /\ \A f \in FileNames : files[f] # <<>> => SignificanceDone
    /\ (pc = "aborted" /\ err \in {"ValueError", "LibraryError"}) =>
          /\ created = <<>>
          /\ \A f \in FileNames : files[f] = <<>>

\* the correction raised after the p-values were computed: nothing was written
C8_Witness ==
    /\ pc = "aborted"
    /\ err = "LibraryError"
    /\ "pval" \in locals
    /\ created = <<>>

\* C10 (as claimed): after a call whose peak file was written, the merged
\* peak file holds one record per maximal run of adjacent or overlapping
\* called bins, with max p_score and q_score and min p-value and adjusted
\* p-value of the run.
C10_MergedRuns ==
    (Halted /\ "peak.bed" \in Range(created)) =>
        files["peak.merged.bed"] = merge(files["peak.bed"])

\* the bins the fits and the dispersion estimates are meant to see, and the
\* bins that are meant to get a p-value, by their position in the bin file
TrainingIdx == {j \in DOMAIN bed : nonZeroInput[j] /\ nonSliding[j]}

TestedIdx == {j \in DOMAIN bed : nonZeroInput[j]}

\* the rows of the count file at the positions S, in file order
RowsOf(S) == LET q == SortedSeq(S) IN [k \in DOMAIN q |-> bct[q[k]]]

CallNames == [k \in DOMAIN calls |-> calls[k].fn]

\* C11: both regression fits and both dispersion estimates are given exactly
\* the rows of the bins that are sufficiently covered and non-sliding; the
\* prediction and the p-value computation are given the rows of all
\* sufficiently covered bins; the training bins are a subset of the tested
\* bins, and the bins that are tested but not trained on are exactly the
\* covered sliding bins.
C11_TrainingWithinTested ==
    /\ \A k \in DOMAIN calls :
          calls[k].rows = IF calls[k].fn \in {"glm.fit", "theta"}
                          THEN RowsOf(TrainingIdx)
                          ELSE RowsOf(TestedIdx)
    /\ calls # <<>> =>
          /\ TrainingIdx \subseteq TestedIdx
          /\ TestedIdx \ TrainingIdx = {j \in DOMAIN bed : nonZeroInput[j] /\ ~nonSliding[j]}
    /\ pc = "correct" =>
          CallNames = <<"glm.fit", "theta", "glm.fit", "theta", "predict", "nbinom.cdf">>

\* the p-values were computed in a run with a covered sliding bin
C11_Witness ==
    /\ pc = "correct"
    /\ Len(calls) = 6
    /\ TrainingIdx # {}
    /\ TrainingIdx # TestedIdx

\* the marked bins of bin j's chromosome among the bins read before bin j
PrevMarked(j) == {k \in 1..(j - 1) : nonSliding[k] /\ bed[k].chr = bed[j].chr}

\* the marked bins among the bins read before bin j, on any chromosome
MarkedBefore(j) == {k \in 1..(j - 1) : nonSliding[k]}

ScanOver == "nonSliding" \in locals /\ i = Len(bed)

\* C12: on a bin file sorted by chromosome and start, every bin read so far
\* is marked non-sliding exactly when no bin of its chromosome was marked
\* before it or its start is >= the end of the last marked bin of its
\* chromosome; bins not yet read are unmarked; once the scan is over, the
\* marked bins of one chromosome do not overlap pairwise, and every unmarked
\* bin starts before the end of the last marked bin before it, which is on
\* its chromosome.
C12_MarksNonSliding ==
    "nonSliding" \in locals =>
        /\ \A j \in 1..i :
              nonSliding[j] <=> \/ PrevMarked(j) = {}
                                \/ bed[j].start >= bed[Max(PrevMarked(j))].end
        /\ \A j \in (i + 1)..Len(bed) : ~nonSliding[j]
        /\ ScanOver =>
              /\ \A k, l \in DOMAIN bed :
                    (k < l /\ nonSliding[k] /\ nonSliding[l] /\ bed[k].chr = bed[l].chr)
                        => bed[k].end <= bed[l].start
              /\ \A j \in DOMAIN bed :
                    ~nonSliding[j] =>
                        /\ MarkedBefore(j) # {}
                        /\ bed[Max(MarkedBefore(j))].chr = bed[j].chr
                        /\ bed[j].start < bed[Max(MarkedBefore(j))].end

\* the scan is over; it left a bin unmarked and marked a bin that is not the
\* first marked bin of its chromosome
C12_Witness ==
    /\ ScanOver
    /\ \E j \in DOMAIN bed : ~nonSliding[j]
    /\ \E j \in DOMAIN bed : nonSliding[j] /\ PrevMarked(j) # {}

(***************************************************************************)
(* Properties of theta.                                                    *)
(***************************************************************************)
ThetaLoopOver == tpc \in {"se", "returned", "raised"}

LimitWarned == "iteration limit reached" \in Range(warnings)

\* C4 (as claimed): theta never returns a negative dispersion, and when the
\* loop ends on a negative value it prints 'estimate truncated at zero' and
\* returns normally with theta = 0, without raising.
C4_TruncatesAndReturns ==
    /\ tpc # "raised"
    /\ tpc = "returned" => t0 >= 0
    /\ (ThetaLoopOver /\ t0_int) =>
          t0 = 0 /\ "estimate truncated at zero" \in Range(warnings)

Iterated == it' # it

\* lines 367-370: it counts the iteration, which replaces t0 by |t0| plus the
\* update it computed
IterationRule == it' = it + 1 /\ it < limit /\ t0' = Abs(t0) + de'

NoIntersect(p) == \A l \in DOMAIN coverageFile : ~Overlaps(p, coverageFile[l])

\* the depth the coverage file gives position pos (0 where it has no record)
DepthAt(pos) ==
    LET recs == {l \in DOMAIN coverageFile :
                    coverageFile[l].start <= pos /\ pos < coverageFile[l].end}
    IN IF recs = {} THEN 0 ELSE coverageFile[CHOOSE l \in recs : TRUE].depth

RECURSIVE CoverageSum(_, _)
CoverageSum(a, b) == IF a > b THEN 0 ELSE DepthAt(a) + CoverageSum(a + 1, b)

\* the coverage of the window of peak p at offset idx
WindowCoverage(p, idx) == CoverageSum(p.start + idx, p.start + idx + WindowSize - 1)

\* the offsets of peak p whose window has the largest coverage
BestOffsets(p) ==
    {idx \in 0..(p.end - p.start - WindowSize) :
        \A other \in 0..(p.end - p.start - WindowSize) :
            WindowCoverage(p, idx) >= WindowCoverage(p, other)}

\* C5 (as claimed): a peak that no coverage record intersects gets a warning
\* and no row in the centered file, the loop goes on to the next peak, and
\* the condition never aborts the run.
C5_NoIntersectWarnsAndSkips ==
    /\ cerr # "KeyError"
    /\ \A k \in 1..n_done :
          NoIntersect(peak[k]) =>
              /\ peak[k] \in warned
              /\ \A r \in Range(centered) : r.end <= peak[k].start \/ r.start >= peak[k].end

\* C6 (as claimed): for the peak just handled (length >= windowSize), each
\* depth[idx] is the sum, over the positions of the window at offset idx, of
\* the depth of the coverage record covering the position (0 where none
\* does), also when a record begins before the peak or ends after it.
C6_WindowSumsMatchCoverage ==
    n_done >= 1 =>
        \A idx \in 0..(peak[n_done].end - peak[n_done].start - WindowSize) :
            depth[idx] = WindowCoverage(peak[n_done], idx)

\* the coverage is the same at every position of peak p
FlatCoverage(p) ==
    \A a \in p.start..(p.end - 1) : \A b \in p.start..(p.end - 1) : DepthAt(a) = DepthAt(b)

\* C7 (as claimed): the row written for the peak just handled spans from the
\* first to the end of the last window of maximal coverage; so it lies in
\* the peak, is at least windowSize long, and is the whole peak when the
\* coverage is flat over the peak.
C7_SpanOfMaximalWindows ==
    n_done >= 1 =>
        LET p == peak[n_done]
            row == centered[Len(centered)]
        IN /\ row.start = p.start + Min(BestOffsets(p))
           /\ row.end = p.start + Max(BestOffsets(p)) + WindowSize
           /\ p.start <= row.start /\ row.end <= p.end
           /\ row.end - row.start >= WindowSize
           /\ FlatCoverage(p) => (row.start = p.start /\ row.end = p.end)

=============================================================================
